---- MODULE Spec2Model ----
(***************************************************************************)
(* Kinship graph synthesis and labelling (experiment/data.py).             *)
(*                                                                         *)
(* A graph is a record [nodes, edges]: nodes maps a node id to its         *)
(* attribute dictionary, edges maps a pair <<u, v>> to its attribute       *)
(* dictionary (networkx DiGraph: at most one edge per ordered pair).  An   *)
(* attribute dictionary is a function from attribute names to values; a    *)
(* key that was never written is not in its DOMAIN.                        *)
(***************************************************************************)
EXTENDS Integers, Sequences, FiniteSets, TLC

(* ---------------------------- bounds ---------------------------------- *)

\* generate_graph is called with num_people in 0..MaxPeople
MaxPeople == 2
\* role-player arguments of the labeller calls range over the node ids 0..MaxNodeId
MaxNodeId == 2
\* at most MaxCalls labelling calls are made on one generated graph
MaxCalls == 2
\* create_graph is called with an index in 0..MaxScenario
MaxScenario == 13

(* --------------------------- vocabulary ------------------------------- *)

\* Python's None, as a node id / graph reference that is no id
None == -1

Labels == {"input", "solution"}

\* the *attributes argument lists the calls are made with
AttributeLists == {<<>>, <<"input">>, <<"solution">>, <<"input", "solution">>}

\* the (relation_type, roles) arguments add_relation_label is called with
\* directly, beside those of its two wrappers
DirectCalls == {<<"parentship", <<"child", "parent">>>>,
                <<"siblingship", <<"parent", "child">>>>}

SeqToSet(s) == {s[k] : k \in 1..Len(s)}

(* ----------------------- networkx primitives -------------------------- *)

EmptyGraph == [nodes |-> <<>>, edges |-> <<>>]

\* G.add_node(n, type=t): creates the node, or updates its attributes
add_node(G, n, t) ==
    [G EXCEPT !.nodes =
        IF n \in DOMAIN G.nodes
        THEN (n :> (("type" :> t) @@ G.nodes[n])) @@ G.nodes
        ELSE (n :> ("type" :> t)) @@ G.nodes]

\* G.add_edge(u, v, type=t): creates missing end points, creates or updates the edge
add_edge(G, u, v, t) ==
    LET withU == IF u \in DOMAIN G.nodes THEN G.nodes ELSE (u :> <<>>) @@ G.nodes
        withV == IF v \in DOMAIN withU THEN withU ELSE (v :> <<>>) @@ withU
        e == <<u, v>>
    IN [nodes |-> withV,
        edges |-> IF e \in DOMAIN G.edges
                  THEN (e :> (("type" :> t) @@ G.edges[e])) @@ G.edges
                  ELSE (e :> ("type" :> t)) @@ G.edges]

\* G.predecessors(v)
predecessors(G, v) == {u \in DOMAIN G.nodes : <<u, v>> \in DOMAIN G.edges}

(* -------------------------- generate_graph ---------------------------- *)

\* all index pairs over range(n), in lexicographic order
IndexPairs(n) == [k \in 1..(n * n) |-> <<(k - 1) \div n, (k - 1) % n>>]

IsDistinct(p) == p[1] # p[2]

IsIncreasing(p) == p[1] < p[2]

\* itertools.permutations(range(n), 2)
permutations2(n) == SelectSeq(IndexPairs(n), IsDistinct)

\* itertools.combinations(range(n), 2)
combinations2(n) == SelectSeq(IndexPairs(n), IsIncreasing)

RECURSIVE add_people(_, _, _)
\* G.add_nodes_from(range(num_people), type="person"), from node k on.
\* (Here and in the loops below the graph after an iteration is bound by
\* "g \in {...}", which has TLC evaluate it before the next iteration.)
add_people(G, k, num_people) ==
    IF k >= num_people THEN G
    ELSE CHOOSE R \in {add_people(g, k + 1, num_people) :
                          g \in {add_node(G, k, "person")}} : TRUE

\* the body of the two enumerate loops: the relation node and its two role edges
add_relation(G, relation_node, node_1, node_2, relation_type, roles) ==
    add_edge(add_edge(add_node(G, relation_node, relation_type),
                      relation_node, node_1, roles[1]),
             relation_node, node_2, roles[2])

RECURSIVE add_relations(_, _, _, _, _, _)
\* one of the two enumerate loops, from its i-th pair (0-based) on: the i-th
\* pair becomes relation node i + last_id
add_relations(G, pairs, i, last_id, relation_type, roles) ==
    IF i >= Len(pairs) THEN G
    ELSE CHOOSE R \in {add_relations(g, pairs, i + 1, last_id, relation_type, roles) :
                          g \in {add_relation(G, i + last_id, pairs[i + 1][1],
                                              pairs[i + 1][2], relation_type, roles)}} : TRUE

\* last_id = len(G.nodes), then the loop over pairs
with_relations(G, pairs, relation_type, roles) ==
    add_relations(G, pairs, 0, Cardinality(DOMAIN G.nodes), relation_type, roles)

\* generate_graph with the siblingship loop run over permutations
generate_graph_siblings_permuted(num_people) ==
    CHOOSE R \in {with_relations(G1, permutations2(num_people),
                                 "siblingship", <<"sibling", "sibling">>) :
                     G1 \in {with_relations(G0, permutations2(num_people),
                                            "parentship", <<"parent", "child">>) :
                                G0 \in {add_people(EmptyGraph, 0, num_people)}}} : TRUE

generate_graph(num_people) ==
    CHOOSE R \in {with_relations(G1, combinations2(num_people),
                                 "siblingship", <<"sibling", "sibling">>) :
                     G1 \in {with_relations(G0, permutations2(num_people),
                                            "parentship", <<"parent", "child">>) :
                                G0 \in {add_people(EmptyGraph, 0, num_people)}}} : TRUE

(* -------------------------- add_base_labels --------------------------- *)

RECURSIVE set_all(_, _, _)
\* for attribute in attributes: d[attribute] = value
set_all(d, attributes, value) ==
    IF attributes = <<>> THEN d
    ELSE set_all((Head(attributes) :> value) @@ d, Tail(attributes), value)

\* add_base_labels that leaves an edge attribute that is already set
add_base_labels_keeps_edges(G, attributes) ==
    [nodes |-> [node \in DOMAIN G.nodes |->
                   set_all(G.nodes[node], attributes,
                           IF G.nodes[node]["type"] = "person" THEN 1 ELSE 0)],
     edges |-> [edge \in DOMAIN G.edges |->
                   G.edges[edge] @@ set_all(G.edges[edge], attributes, 0)]]

\* add_base_labels without the test of the node's type
add_base_labels_all_given(G, attributes) ==
    [nodes |-> [node \in DOMAIN G.nodes |-> set_all(G.nodes[node], attributes, 1)],
     edges |-> [edge \in DOMAIN G.edges |-> set_all(G.edges[edge], attributes, 0)]]

add_base_labels(G, attributes) ==
    [nodes |-> [node \in DOMAIN G.nodes |->
                   set_all(G.nodes[node], attributes,
                           IF G.nodes[node]["type"] = "person" THEN 1 ELSE 0)],
     edges |-> [edge \in DOMAIN G.edges |-> set_all(G.edges[edge], attributes, 0)]]

(* ------------------------- find_relation_node ------------------------- *)

\* matching_nodes without the two tests of the edge types
matching_nodes_any_role(G, relation_type, roles, roleplayers) ==
    {node \in predecessors(G, roleplayers[1]) \cap predecessors(G, roleplayers[2]) :
        G.nodes[node]["type"] = relation_type}

\* the nodes the loop can return: the candidates passing the three tests
matching_nodes(G, relation_type, roles, roleplayers) ==
    {node \in predecessors(G, roleplayers[1]) \cap predecessors(G, roleplayers[2]) :
        /\ G.nodes[node]["type"] = relation_type
        /\ G.edges[<<node, roleplayers[1]>>]["type"] = roles[1]
        /\ G.edges[<<node, roleplayers[2]>>]["type"] = roles[2]}

\* The values find_relation_node can return.  The loop runs over a set, whose
\* iteration order is unspecified, and returns the first match; with no match
\* the function falls off its end and returns None.
find_relation_node(G, relation_type, roles, roleplayers) ==
    LET found == matching_nodes(G, relation_type, roles, roleplayers)
    IN IF found = {} THEN {None} ELSE found

(* ------------------------- add_relation_label ------------------------- *)

RECURSIVE write_labels_one_edge(_, _, _, _)
\* write_labels without the write on the second role edge
write_labels_one_edge(G, relation, roleplayers, attributes) ==
    IF attributes = <<>> THEN G
    ELSE LET a == Head(attributes)
             e0 == <<relation, roleplayers[1]>>
             N1 == [G.nodes EXCEPT ![relation] = (a :> 1) @@ @]
             E1 == [G.edges EXCEPT ![e0] = (a :> 1) @@ @]
         IN write_labels_one_edge([nodes |-> N1, edges |-> E1], relation, roleplayers,
                                  Tail(attributes))

RECURSIVE write_labels(_, _, _, _)
\* the body of the loop over attributes, for a relation that is a node of G
write_labels(G, relation, roleplayers, attributes) ==
    IF attributes = <<>> THEN G
    ELSE LET a == Head(attributes)
             e0 == <<relation, roleplayers[1]>>
             e1 == <<relation, roleplayers[2]>>
             N1 == [G.nodes EXCEPT ![relation] = (a :> 1) @@ @]
             E1 == [G.edges EXCEPT ![e0] = (a :> 1) @@ @]
             E2 == [E1 EXCEPT ![e1] = (a :> 1) @@ @]
         IN write_labels([nodes |-> N1, edges |-> E2], relation, roleplayers,
                         Tail(attributes))

\* the loop of add_relation_label once the relation is located: G.nodes[None]
\* raises KeyError in the first iteration, before anything is written; with no
\* attribute the loop body never runs
label_located(G, relation, roleplayers, attributes) ==
    IF attributes = <<>>
    THEN [G |-> G, outcome |-> "ok", relation |-> relation]
    ELSE IF relation \notin DOMAIN G.nodes
    THEN [G |-> G, outcome |-> "KeyError", relation |-> relation]
    ELSE [G |-> write_labels(G, relation, roleplayers, attributes),
          outcome |-> "ok", relation |-> relation]

\* the outcomes add_relation_label can have
add_relation_label(G, relation_type, roles, roleplayers, attributes) ==
    {label_located(G, relation, roleplayers, attributes) :
        relation \in find_relation_node(G, relation_type, roles, roleplayers)}

add_parentship(G, parent_node, child_node, attributes) ==
    add_relation_label(G, "parentship", <<"parent", "child">>,
                       <<parent_node, child_node>>, attributes)

add_siblingship(G, sibling_node_1, sibling_node_2, attributes) ==
    add_relation_label(G, "siblingship", <<"sibling", "sibling">>,
                       <<sibling_node_1, sibling_node_2>>, attributes)

(* ---------------------------- create_graph ---------------------------- *)

Both == <<"input", "solution">>

Sol == <<"solution">>

\* a parentship marked as input only
P_input_only(a, b, attributes) ==
    [op |-> "add_parentship", a |-> a, b |-> b, attributes |-> <<"input">>]

P(a, b, attributes) == [op |-> "add_parentship", a |-> a, b |-> b, attributes |-> attributes]

\* a siblingship marked as input and solution
S_input_too(a, b, attributes) ==
    [op |-> "add_siblingship", a |-> a, b |-> b, attributes |-> Both]

S(a, b, attributes) == [op |-> "add_siblingship", a |-> a, b |-> b, attributes |-> attributes]

\* the branches of the if / elif chain: the indices that build a graph
ScenarioIndices == {0, 1, 2, 3, 5, 6, 7, 8, 9, 10, 11, 12}

\* the argument of base_graph in branch i
ScenarioPeople(i) == IF i \in {0, 1, 2, 3} THEN 3 ELSE 4

\* the labeller calls of branch i, in order
ScenarioCalls(i) ==
    CASE i = 0 -> <<P(0, 1, Both), P(0, 2, Both), S(1, 2, Sol)>>
      [] i = 1 -> <<S(0, 1, Both), S(1, 2, Both), S(0, 2, Sol)>>
      [] i = 2 -> <<P(0, 1, Both), P(1, 2, Both)>>
      [] i = 3 -> <<P(0, 1, Both), S(1, 2, Both)>>
      [] i = 5 -> <<P(0, 1, Both), P(0, 2, Both), P(2, 3, Both), S(1, 2, Sol)>>
      [] i = 6 -> <<P(0, 1, Both), P(0, 2, Both), P(2, 3, Both), S(1, 2, Sol)>>
      [] i = 7 -> <<P(0, 1, Both), P(0, 2, Both), P(3, 0, Both), S(1, 2, Sol)>>
      [] i = 8 -> <<P(0, 1, Both), P(1, 2, Both), P(2, 3, Both)>>
      [] i = 9 -> <<P(0, 1, Both), P(0, 2, Both), P(0, 3, Both),
                    S(1, 2, Sol), S(2, 3, Sol), S(1, 3, Sol)>>
      [] i = 10 -> <<S(0, 1, Both), S(1, 2, Both), S(2, 3, Both),
                     S(0, 2, Sol), S(0, 3, Sol), S(1, 3, Sol)>>
      [] i = 11 -> <<S(0, 1, Both), S(1, 2, Both), S(2, 3, Both),
                     S(0, 2, Sol), S(0, 3, Sol), S(1, 3, Sol)>>
      [] i = 12 -> <<P(0, 1, Both), P(0, 2, Both), P(3, 1, Both), S(1, 2, Sol)>>
      [] OTHER -> <<>>

\* base_graph(num_people), the local function of create_graph
base_graph(num_people) == add_base_labels(generate_graph(num_people), Both)

\* one labeller call of a recipe
run_call(G, c) ==
    IF c.op = "add_parentship"
    THEN add_parentship(G, c.a, c.b, c.attributes)
    ELSE add_siblingship(G, c.a, c.b, c.attributes)

RECURSIVE run_calls(_, _)
\* the calls of a branch in order; an exception ends the branch
run_calls(G, calls) ==
    IF calls = <<>> THEN {[G |-> G, outcome |-> "ok"]}
    ELSE UNION {IF r.outcome = "ok"
                THEN run_calls(r.G, Tail(calls))
                ELSE {[G |-> r.G, outcome |-> r.outcome]} :
                r \in run_call(G, Head(calls))}

\* The outcomes of create_graph(i): built says whether G was assigned a graph
\* (it is None otherwise), outcome whether the call returned or raised.
create_graph(i) ==
    IF i \in ScenarioIndices
    THEN {[built |-> TRUE, G |-> r.G, outcome |-> r.outcome] :
             r \in UNION {run_calls(G, ScenarioCalls(i)) :
                             G \in {base_graph(ScenarioPeople(i))}}}
    ELSE {[built |-> FALSE, G |-> EmptyGraph, outcome |-> "ok"]}

\* the index list with the index 4, which builds no graph
TupleIndices_with_4 == <<0, 1, 2, 3, 4, 5, 6, 7, 8, 9>>

\* the index list of create_graphs_tuple
TupleIndices == <<0, 1, 2, 3, 5, 6, 7, 8, 9, 10>>

RECURSIVE tuple_from(_, _, _)
\* The generator expression of create_graphs_tuple from its k-th index on:
\* the possible [heap, refs, outcome], every graph built being a new object
\* of the heap and an index without a graph yielding None.
tuple_from(hp, refs, k) ==
    IF k > Len(TupleIndices) THEN {[heap |-> hp, refs |-> refs, outcome |-> "ok"]}
    ELSE UNION {IF r.outcome # "ok"
                THEN {[heap |-> hp, refs |-> refs, outcome |-> r.outcome]}
                ELSE IF r.built
                THEN tuple_from(Append(hp, r.G), Append(refs, Len(hp) + 1), k + 1)
                ELSE tuple_from(hp, Append(refs, None), k + 1) :
                r \in create_graph(TupleIndices[k])}

(* --------------------------- the program ------------------------------ *)

VARIABLES
    pc,          \* "idle", then "api" (generate_graph returned a graph, which is
                 \* being labelled), "graph_returned" (create_graph returned),
                 \* "tuple_returned" (create_graphs_tuple returned) or "raised"
    heap,        \* the graph objects allocated so far, by reference 1..Len(heap)
    G,           \* the graph the caller holds: a reference, or None
    num_people,  \* the argument generate_graph was called with
    scenario,    \* the argument create_graph was called with
    graphs,      \* the tuple create_graphs_tuple returned
    lastCall,    \* the function that ran last (add_parentship and
                 \* add_siblingship run add_relation_label)
    outcome,     \* how it ended: "ok" or the exception raised
    calls,       \* labelling calls made on the generated graph
    initialized, \* history: the labels add_base_labels has been called with
    located      \* history: <<relation node, label>> written by a labeller call
                 \* since the last add_base_labels naming the label

vars == <<pc, heap, G, num_people, scenario, graphs, lastCall, outcome, calls,
          initialized, located>>

Init ==
    /\ pc = "idle"
    /\ heap = <<>>
    /\ G = None
    /\ num_people = None
    /\ scenario = None
    /\ graphs = <<>>
    /\ lastCall = "none"
    /\ outcome = "ok"
    /\ calls = 0
    /\ initialized = {}
    /\ located = {}

\* the node ids the labeller calls are made with
RolePlayerIds ==
    IF pc = "api" THEN {n \in DOMAIN heap[G].nodes : n <= MaxNodeId} ELSE {}

GenerateGraph(n) ==
    /\ pc = "idle"
    /\ pc' = "api"
    /\ heap' = Append(heap, generate_graph(n))
    /\ G' = Len(heap) + 1
    /\ num_people' = n
    /\ lastCall' = "generate_graph"
    /\ outcome' = "ok"
    /\ UNCHANGED <<scenario, graphs, calls, initialized, located>>

AddBaseLabels(attributes) ==
    /\ pc = "api"
    /\ calls < MaxCalls
    /\ calls' = calls + 1
    /\ heap' = [heap EXCEPT ![G] = add_base_labels(heap[G], attributes)]
    /\ lastCall' = "add_base_labels"
    /\ outcome' = "ok"
    /\ initialized' = initialized \cup SeqToSet(attributes)
    /\ located' = {x \in located : x[2] \notin SeqToSet(attributes)}
    /\ UNCHANGED <<pc, G, num_people, scenario, graphs>>

\* a labeller call that ended as r
Labelled(r, attributes) ==
    /\ pc = "api"
    /\ calls < MaxCalls
    /\ calls' = calls + 1
    /\ heap' = [heap EXCEPT ![G] = r.G]
    /\ lastCall' = "add_relation_label"
    /\ outcome' = r.outcome
    /\ located' = IF r.outcome = "ok"
                  THEN located \cup {<<r.relation, a>> : a \in SeqToSet(attributes)}
                  ELSE located
    /\ UNCHANGED <<pc, G, num_people, scenario, graphs, initialized>>

AddRelationLabel(relation_type, roles, roleplayers, attributes) ==
    /\ pc = "api"
    /\ \E r \in add_relation_label(heap[G], relation_type, roles, roleplayers, attributes) :
          Labelled(r, attributes)

AddParentship(parent_node, child_node, attributes) ==
    /\ pc = "api"
    /\ \E r \in add_parentship(heap[G], parent_node, child_node, attributes) :
          Labelled(r, attributes)

AddSiblingship(sibling_node_1, sibling_node_2, attributes) ==
    /\ pc = "api"
    /\ \E r \in add_siblingship(heap[G], sibling_node_1, sibling_node_2, attributes) :
          Labelled(r, attributes)

CreateGraph(i) ==
    /\ pc = "idle"
    /\ \E r \in create_graph(i) :
          /\ pc' = IF r.outcome = "ok" THEN "graph_returned" ELSE "raised"
          /\ heap' = IF r.built THEN Append(heap, r.G) ELSE heap
          /\ G' = IF r.built /\ r.outcome = "ok" THEN Len(heap) + 1 ELSE None
          /\ outcome' = r.outcome
    /\ scenario' = i
    /\ lastCall' = "create_graph"
    /\ UNCHANGED <<num_people, graphs, calls, initialized, located>>

CreateGraphsTuple ==
    /\ pc = "idle"
    /\ \E r \in tuple_from(heap, <<>>, 1) :
          /\ pc' = IF r.outcome = "ok" THEN "tuple_returned" ELSE "raised"
          /\ heap' = r.heap
          /\ graphs' = IF r.outcome = "ok" THEN r.refs ELSE graphs
          /\ outcome' = r.outcome
    /\ lastCall' = "create_graphs_tuple"
    /\ UNCHANGED <<G, num_people, scenario, calls, initialized, located>>

Next ==
    \/ \E n \in 0..MaxPeople : GenerateGraph(n)
    \/ \E attributes \in AttributeLists : AddBaseLabels(attributes)
    \/ \E c \in DirectCalls, a, b \in RolePlayerIds, attributes \in AttributeLists :
          AddRelationLabel(c[1], c[2], <<a, b>>, attributes)
    \/ \E a, b \in RolePlayerIds, attributes \in AttributeLists :
          AddParentship(a, b, attributes)
    \/ \E a, b \in RolePlayerIds, attributes \in AttributeLists :
          AddSiblingship(a, b, attributes)
    \/ \E i \in 0..MaxScenario : CreateGraph(i)
    \/ CreateGraphsTuple

Spec == Init /\ [][Next]_vars

(* ------------------------ reading a graph ----------------------------- *)

\* attribute a is set in dictionary d and reads v
Has(d, a, v) == a \in DOMAIN d /\ d[a] = v

NodesOfType(g, t) == {n \in DOMAIN g.nodes : Has(g.nodes[n], "type", t)}

RelationNodes(g) == NodesOfType(g, "parentship") \cup NodesOfType(g, "siblingship")

OutEdges(g, n) == {e \in DOMAIN g.edges : e[1] = n}

\* r is a relation node of type relation_type whose two role edges lead to
\* roleplayers[1] in role roles[1] and to roleplayers[2] in role roles[2]
Connects(g, r, relation_type, roles, roleplayers) ==
    LET e1 == <<r, roleplayers[1]>>
        e2 == <<r, roleplayers[2]>>
    IN /\ Has(g.nodes[r], "type", relation_type)
       /\ e1 \in DOMAIN g.edges /\ e2 \in DOMAIN g.edges /\ e1 # e2
       /\ Has(g.edges[e1], "type", roles[1])
       /\ Has(g.edges[e2], "type", roles[2])

RelationExists(g, relation_type, roles, roleplayers) ==
    \E r \in DOMAIN g.nodes : Connects(g, r, relation_type, roles, roleplayers)

\* the graph the caller holds
Held == heap[G]

\* the (relation_type, roles) pairs of the labeller calls
LabellerCalls ==
    DirectCalls \cup {<<"parentship", <<"parent", "child">>>>,
                      <<"siblingship", <<"sibling", "sibling">>>>}

\* a step that is the call add_relation_label(G, relation_type, roles,
\* roleplayers, *attributes), made directly or through its wrapper
LabelStep(relation_type, roles, roleplayers, attributes) ==
    \/ /\ <<relation_type, roles>> \in DirectCalls
       /\ AddRelationLabel(relation_type, roles, roleplayers, attributes)
    \/ /\ <<relation_type, roles>> = <<"parentship", <<"parent", "child">>>>
       /\ AddParentship(roleplayers[1], roleplayers[2], attributes)
    \/ /\ <<relation_type, roles>> = <<"siblingship", <<"sibling", "sibling">>>>
       /\ AddSiblingship(roleplayers[1], roleplayers[2], attributes)

(* ============================ the claims ============================== *)

\* generate_graph(n) built this graph
Counts(g, n) ==
    /\ Cardinality(NodesOfType(g, "person")) = n
    /\ Cardinality(NodesOfType(g, "parentship")) = n * (n - 1)
    /\ 2 * Cardinality(NodesOfType(g, "siblingship")) = n * (n - 1)
    /\ Cardinality(DOMAIN g.nodes) = n + n * (n - 1) + (n * (n - 1)) \div 2
    /\ \A r \in RelationNodes(g) : Cardinality(OutEdges(g, r)) = 2
    /\ n < 2 => RelationNodes(g) = {}

\* C1: for every n >= 0, generate_graph(n) has exactly n person nodes,
\* n*(n-1) parentship nodes and n*(n-1)/2 siblingship nodes, every relation
\* node has out-degree exactly 2, and for n < 2 there is no relation node.
\* (Checked on the graph generate_graph returned, which later labelling
\* leaves as it is, and on the graphs create_graph generates.)
C1_GenerateGraphCounts ==
    /\ pc = "api" => Counts(Held, num_people)
    /\ (pc = "graph_returned" /\ G # None)
           => Counts(Held, ScenarioPeople(scenario))

C1_Witness ==
    /\ pc = "api" /\ lastCall = "generate_graph"
    /\ num_people = 2
    /\ Cardinality(RelationNodes(Held)) = 3

\* the lookup of (relation_type, roles, roleplayers) returns a node, the
\* only one it can return and the only node of g that passes the three tests
UniqueLookup(g, relation_type, roles, roleplayers) ==
    LET returned == find_relation_node(g, relation_type, roles, roleplayers)
        passing == {x \in DOMAIN g.nodes :
                       /\ Has(g.nodes[x], "type", relation_type)
                       /\ <<x, roleplayers[1]>> \in DOMAIN g.edges
                       /\ <<x, roleplayers[2]>> \in DOMAIN g.edges
                       /\ Has(g.edges[<<x, roleplayers[1]>>], "type", roles[1])
                       /\ Has(g.edges[<<x, roleplayers[2]>>], "type", roles[2])}
    IN /\ Cardinality(returned) = 1
       /\ None \notin returned
       /\ returned = passing

LookupTotal(g) ==
    \A a, b \in NodesOfType(g, "person") :
        a # b => /\ UniqueLookup(g, "parentship", <<"parent", "child">>, <<a, b>>)
                 /\ UniqueLookup(g, "siblingship", <<"sibling", "sibling">>, <<a, b>>)

\* C2: on a generated graph, for every ordered pair (a, b) of distinct
\* persons, find_relation_node for parentship [parent, child] and for
\* siblingship [sibling, sibling] returns a node (never None) of the
\* requested type whose edges to a and b have the requested roles, and that
\* node is the only node of the graph passing the three tests, so the
\* iteration order of the candidates does not matter.
C2_LookupUnique ==
    (pc = "api" \/ (pc = "graph_returned" /\ G # None))
        => LookupTotal(Held)

C2_Witness ==
    /\ pc = "api"
    /\ num_people = 2
    /\ find_relation_node(Held, "parentship", <<"parent", "child">>, <<1, 0>>) = {3}

\* g2 is g with label L written on relation r and its edges to the two
\* role-players, and nothing else changed
OnlyLabelled(g, g2, r, roleplayers, L) ==
    LET e1 == <<r, roleplayers[1]>>
        e2 == <<r, roleplayers[2]>>
    IN /\ DOMAIN g2.nodes = DOMAIN g.nodes
       /\ DOMAIN g2.edges = DOMAIN g.edges
       /\ Has(g2.nodes[r], L, 1) /\ Has(g2.edges[e1], L, 1) /\ Has(g2.edges[e2], L, 1)
       /\ \A n \in DOMAIN g.nodes \ {r} : g2.nodes[n] = g.nodes[n]
       /\ \A e \in DOMAIN g.edges \ {e1, e2} : g2.edges[e] = g.edges[e]
       /\ DOMAIN g2.nodes[r] = DOMAIN g.nodes[r] \cup {L}
       /\ \A k \in DOMAIN g.nodes[r] \ {L} : g2.nodes[r][k] = g.nodes[r][k]
       /\ \A e \in {e1, e2} :
             /\ DOMAIN g2.edges[e] = DOMAIN g.edges[e] \cup {L}
             /\ \A k \in DOMAIN g.edges[e] \ {L} : g2.edges[e][k] = g.edges[e][k]

\* C3: on a generated and base-labelled graph, after add_relation_label(G,
\* relation_type, roles, (a, b), L) for a pair for which the relation exists,
\* the relation node and its edges to a and b read L = 1, and L on every
\* other node and edge, every other label, every type, the node set and the
\* edge set are unchanged.
C3_LabelFrame ==
    [][\A c \in LabellerCalls, a, b \in RolePlayerIds, L \in Labels :
          (/\ initialized = Labels
           /\ RelationExists(Held, c[1], c[2], <<a, b>>)
           /\ LabelStep(c[1], c[2], <<a, b>>, <<L>>))
          => /\ outcome' = "ok"
             /\ \E r \in DOMAIN Held.nodes :
                   /\ Connects(Held, r, c[1], c[2], <<a, b>>)
                   /\ OnlyLabelled(Held, heap'[G], r, <<a, b>>, L)]_vars

C3_Witness ==
    /\ pc = "api" /\ initialized = Labels
    /\ lastCall = "add_relation_label" /\ outcome = "ok"
    /\ \E r \in RelationNodes(Held) :
          /\ Has(Held.nodes[r], "solution", 1) /\ Has(Held.nodes[r], "input", 0)
          /\ \A e \in OutEdges(Held, r) : Has(Held.edges[e], "solution", 1)

\* C4: on a generated graph, every labeller call made with a relation type,
\* role order and pair of node ids (equal ids included) for which no relation
\* node connects the two role-players in those roles, and with any list of
\* attribute names (the empty list included), ends in an error and writes
\* nothing.
C4_NoRelationEndsInError ==
    [][\A c \in LabellerCalls, a, b \in RolePlayerIds, attributes \in AttributeLists :
          (/\ ~RelationExists(Held, c[1], c[2], <<a, b>>)
           /\ LabelStep(c[1], c[2], <<a, b>>, attributes))
          => (outcome' = "KeyError" /\ heap' = heap)]_vars

\* label reads the same on relation node r and on each of its role edges
InLockstep(g, r, label) ==
    \A e \in OutEdges(g, r) :
        /\ label \in DOMAIN g.nodes[r] <=> label \in DOMAIN g.edges[e]
        /\ label \in DOMAIN g.nodes[r] => g.nodes[r][label] = g.edges[e][label]

\* C5: in every state reached from generate_graph(n) and add_base_labels(G,
\* "input", "solution") by add_base_labels, add_parentship and
\* add_siblingship calls on person ids, every relation node reads, for
\* "input" and for "solution", the same value as each of its two role edges.
C5_Lockstep ==
    (pc = "api" /\ initialized = Labels)
        => \A r \in RelationNodes(Held), label \in Labels : InLockstep(Held, r, label)

\* every attribute of the list reads 1 on the persons, 0 on the relation
\* nodes and 0 on the edges
IsReset(g, attributes) ==
    \A a \in SeqToSet(attributes) :
        /\ \A n \in NodesOfType(g, "person") : Has(g.nodes[n], a, 1)
        /\ \A n \in RelationNodes(g) : Has(g.nodes[n], a, 0)
        /\ \A e \in DOMAIN g.edges : Has(g.edges[e], a, 0)

\* g and g2 have the same nodes and edges and agree on the attributes of the list
SameOn(g, g2, attributes) ==
    /\ DOMAIN g.nodes = DOMAIN g2.nodes
    /\ DOMAIN g.edges = DOMAIN g2.edges
    /\ \A a \in SeqToSet(attributes) :
          /\ \A n \in DOMAIN g.nodes : Has(g2.nodes[n], a, g.nodes[n][a])
          /\ \A e \in DOMAIN g.edges : Has(g2.edges[e], a, g.edges[e][a])

\* C6: add_base_labels is an idempotent reset: after any earlier calls,
\* add_base_labels(G, *names) leaves every named attribute at 1 on every
\* person, at 0 on every relation node and at 0 on every edge, as a single
\* add_base_labels on a fresh graph does, and a second call changes nothing.
C6_BaseLabelsReset ==
    [][\A attributes \in AttributeLists :
          AddBaseLabels(attributes)
          => /\ IsReset(heap'[G], attributes)
             /\ SameOn(heap'[G], add_base_labels(generate_graph(num_people), attributes),
                       attributes)
             /\ add_base_labels(heap'[G], attributes) = heap'[G]]_vars

C6_Witness ==
    /\ pc = "api" /\ lastCall = "add_base_labels" /\ calls = 2
    /\ \E r \in RelationNodes(Held) :
          /\ Has(Held.nodes[r], "input", 1) /\ Has(Held.nodes[r], "solution", 0)
          /\ \A e \in OutEdges(Held, r) : Has(Held.edges[e], "solution", 0)

\* C7: after add_base_labels, over any run of labeller calls, every person
\* reads 1 for every initialized label; a relation node reads 1 for a label
\* only if a labeller call since the last add_base_labels located that node
\* and named that label, and reads 0 otherwise.
C7_TruthAttributes ==
    pc = "api" =>
        \A label \in initialized :
            /\ \A n \in NodesOfType(Held, "person") : Has(Held.nodes[n], label, 1)
            /\ \A r \in RelationNodes(Held) :
                  IF <<r, label>> \in located
                  THEN Has(Held.nodes[r], label, 1)
                  ELSE Has(Held.nodes[r], label, 0)

C7_Witness ==
    /\ pc = "api" /\ initialized = Labels
    /\ lastCall = "add_relation_label" /\ outcome = "ok"
    /\ \E r, q \in RelationNodes(Held) :
          /\ <<r, "solution">> \in located /\ Has(Held.nodes[r], "solution", 1)
          /\ <<q, "solution">> \notin located /\ Has(Held.nodes[q], "solution", 0)

\* the relation nodes of g connecting the role-players in the roles
Relations(g, relation_type, roles, roleplayers) ==
    {r \in DOMAIN g.nodes : Connects(g, r, relation_type, roles, roleplayers)}

\* C8: create_graph(0) is a graph on 3 people (ids 0, 1, 2) in which the
\* parentship nodes of (parent 0, child 1) and (parent 0, child 2) read
\* input = 1 and solution = 1, the siblingship of 1 and 2 and its two role
\* edges read solution = 1 and input = 0, and person 1 reads solution = 1.
C8_ScenarioZero ==
    (pc = "graph_returned" /\ scenario = 0) =>
        /\ G # None
        /\ NodesOfType(Held, "person") = {0, 1, 2}
        /\ \A child \in {1, 2} :
              LET rs == Relations(Held, "parentship", <<"parent", "child">>, <<0, child>>)
              IN /\ Cardinality(rs) = 1
                 /\ \A r \in rs : Has(Held.nodes[r], "input", 1)
                                  /\ Has(Held.nodes[r], "solution", 1)
        /\ LET rs == Relations(Held, "siblingship", <<"sibling", "sibling">>, <<1, 2>>)
           IN /\ Cardinality(rs) = 1
              /\ \A r \in rs :
                    /\ Has(Held.nodes[r], "solution", 1) /\ Has(Held.nodes[r], "input", 0)
                    /\ \A e \in {<<r, 1>>, <<r, 2>>} :
                          Has(Held.edges[e], "solution", 1) /\ Has(Held.edges[e], "input", 0)
        /\ Has(Held.nodes[1], "solution", 1)

C8_Witness ==
    /\ pc = "graph_returned" /\ scenario = 0 /\ G # None
    /\ Cardinality(DOMAIN Held.nodes) = 12

\* C9: create_graphs_tuple() returns exactly 10 elements, the k-th being the
\* graph create_graph builds for the k-th index of [0,1,2,3,5,6,7,8,9,10];
\* none is the absent result, and the elements are distinct graph objects.
C9_GraphsTuple ==
    pc = "tuple_returned" =>
        /\ Len(graphs) = 10
        /\ \A k \in 1..Len(graphs) :
              /\ graphs[k] # None
              /\ graphs[k] \in 1..Len(heap)
              /\ \E r \in create_graph(<<0, 1, 2, 3, 5, 6, 7, 8, 9, 10>>[k]) :
                    r.built /\ r.outcome = "ok" /\ r.G = heap[graphs[k]]
        /\ \A j, k \in 1..Len(graphs) : j # k => graphs[j] # graphs[k]

C9_Witness ==
    /\ pc = "tuple_returned"
    /\ Len(graphs) = 10 /\ Len(heap) = 10
    /\ Cardinality(DOMAIN heap[graphs[5]].nodes) = 22

\* C10: create_graph(i) returns a graph exactly for i in
\* {0,1,2,3,5,6,7,8,9,10,11,12}, and on every node and edge of that graph
\* input = 1 implies solution = 1.
C10_InputImpliesSolution ==
    pc = "graph_returned" =>
        /\ G # None <=> scenario \in {0, 1, 2, 3, 5, 6, 7, 8, 9, 10, 11, 12}
        /\ G # None =>
              /\ \A n \in DOMAIN Held.nodes :
                    Has(Held.nodes[n], "input", 1) => Has(Held.nodes[n], "solution", 1)
              /\ \A e \in DOMAIN Held.edges :
                    Has(Held.edges[e], "input", 1) => Has(Held.edges[e], "solution", 1)

C10_Witness ==
    /\ pc = "graph_returned" /\ scenario = 12 /\ G # None
    /\ \E r \in RelationNodes(Held) :
          Has(Held.nodes[r], "input", 1) /\ Has(Held.nodes[r], "solution", 1)
    /\ \E r \in RelationNodes(Held) :
          Has(Held.nodes[r], "input", 0) /\ Has(Held.nodes[r], "solution", 1)

====
